---- MODULE Spec2Model ----
(***************************************************************************)
(* The asynchronous extraction pipeline of the document parsing backend:   *)
(* uploadDocument, processDocument, getDocumentProgress, deleteDocument    *)
(* (controllers/documentController.js) and the ProgressTracker with its    *)
(* activeProgress registry (utils/progressTracker.js).                     *)
(*                                                                         *)
(* One step of the model is one run-to-completion segment of the Node.js   *)
(* event loop: the code between two awaits of a handler, the store         *)
(* applying an operation, an extractor settling, or a timer firing.        *)
(*                                                                         *)
(* Spec and RunSpec are the server.  The modules the server calls are also *)
(* run by themselves, on inputs the server's requests do not reach:        *)
(*   RegistrySpec  create/get/removeProgressTracker in any order           *)
(*   TrackerSpec   the methods of one ProgressTracker in any order         *)
(*   DocxSpec      the table heuristic of extractDOCXText, line by line    *)
(*   PageSpec      the page estimate of the TXT, DOCX and OCR extractors   *)
(*   ExcelSpec     extractExcelData, sheet by sheet                        *)
(*   PdfSpec       extractPDFText, page by page                            *)
(*   TablesSpec    the three extractors that produce tables                *)
(***************************************************************************)
EXTENDS Integers, Sequences, FiniteSets, TLC

(* ------------------------------------------------------------------ *)
(* Bounds of the model                                                 *)
(* ------------------------------------------------------------------ *)

\* number of upload requests the clients make
MaxJobs == 2

\* number of distinct ExtractionResults an extractor may return
MaxResults == 2

Jobs == 1..MaxJobs

Results == 1..MaxResults

(* ------------------------------------------------------------------ *)
(* uploadDocument: file validation                                     *)
(* ------------------------------------------------------------------ *)

\* allowedTypes of uploadDocument
allowedTypes == {"pdf", "docx", "xlsx", "xls", "txt", "jpg", "jpeg", "png"}

\* 10 * 1024 * 1024
maxSize == 10 * 1024 * 1024

\* String.prototype.toLowerCase on the extensions the clients send
toLowerCase(s) ==
    CASE s = "PDF" -> "pdf"
      [] s = "PNG" -> "png"
      [] s = "Txt" -> "txt"
      [] s = "BMP" -> "bmp"
      [] OTHER -> s

\* A file name is a sequence of tokens; "." is the dot, " " a blank, every
\* other token a run of letters.  LastDot is the index of the last dot, 0 if
\* there is none.
LastDot(name) ==
    LET dots == {i \in 1..Len(name) : name[i] = "."}
    IN  IF dots = {} THEN 0 ELSE CHOOSE i \in dots : \A k \in dots : k <= i

\* path.extname(name) without its leading dot: the tokens after the last
\* dot, unless that dot is the first character of the name
extname(name) ==
    LET d == LastDot(name)
    IN  IF d <= 1 THEN <<>> ELSE SubSeq(name, d + 1, Len(name))

\* path.extname(file.originalname).toLowerCase().slice(1)
fileExtOf(name) ==
    LET e == extname(name)
    IN  IF e = <<>> THEN "" ELSE toLowerCase(e[1])

\* file.originalname.trim().length === 0
IsBlankName(name) == \A i \in 1..Len(name) : name[i] = " "

NoFile == [present |-> FALSE]

\* the upload requests of the clients: req.file as multer leaves it
InputNames ==
    { <<"report", ".", "pdf">>, <<"scan", ".", "PNG">>, <<"photo", ".", "bmp">>,
      <<"notes">>, <<" ">> }

InputSizes == {1024, maxSize, maxSize + 1}

InputFiles ==
    {NoFile} \cup
    { [present |-> TRUE, originalname |-> n, size |-> s] :
        n \in InputNames, s \in InputSizes }

\* ValidationError without the allowedTypes check
ValidationError_NoTypeCheck(file) ==
    IF ~file.present THEN "NO_FILE_UPLOADED"
    ELSE IF file.size > maxSize THEN "FILE_TOO_LARGE"
    ELSE IF IsBlankName(file.originalname) THEN "INVALID_FILE_NAME"
    ELSE ""

\* The 4xx answer of uploadDocument's validation, "" if the file passes
ValidationError(file) ==
    IF ~file.present THEN "NO_FILE_UPLOADED"
    ELSE IF fileExtOf(file.originalname) \notin allowedTypes THEN "INVALID_FILE_TYPE"
    ELSE IF file.size > maxSize THEN "FILE_TOO_LARGE"
    ELSE IF IsBlankName(file.originalname) THEN "INVALID_FILE_NAME"
    ELSE ""

(* ------------------------------------------------------------------ *)
(* ProgressTracker                                                     *)
(* ------------------------------------------------------------------ *)

Min(a, b) == IF a < b THEN a ELSE b

Max(a, b) == IF a > b THEN a ELSE b

NoTracker == [status |-> "absent"]

\* new ProgressTracker(documentId)
NewTracker == [progress |-> 0, status |-> "pending", currentStep |-> ""]

\* updateProgress that stores its argument as it is
updateProgress_Unclamped(t, progress, step) ==
    [t EXCEPT !.progress = progress, !.currentStep = step]

\* updateProgress(progress, step)
updateProgress(t, progress, step) ==
    [t EXCEPT !.progress = Min(100, Max(0, progress)), !.currentStep = step]

\* setStatus(status, step)
setStatus(t, status, step) ==
    [t EXCEPT !.status = status, !.currentStep = step]

\* complete() without its updateProgress(100, 'Complete')
complete_StatusOnly(t) == setStatus(t, "completed", "Processing complete")

\* complete()
complete(t) ==
    updateProgress(setStatus(t, "completed", "Processing complete"), 100, "Complete")

\* the fields fail(error) has assigned when it reaches emit('error', ...)
fail(t, message) == setStatus(t, "failed", "Error: " \o message)

\* Listeners attached to a tracker for the 'error' event.  The constructor
\* attaches none and no code of the repository calls on/once/addListener.
errorListenerCount == 0

\* EventEmitter.emit: emitting 'error' with no listener for it throws
EmitThrows(event) == event = "error" /\ errorListenerCount = 0

\* arguments for calls of the tracker's methods
ProgressArgs == {-5, 0, 42, 100, 250}

StatusArgs == {"pending", "processing", "completed", "failed"}

StepArgs == {"", "Reading file"}

MessageArgs == {"corrupt file"}

\* the calls a holder of a tracker can make on it
TrackerCalls ==
    [op : {"updateProgress"}, progress : ProgressArgs, step : StepArgs]
    \cup [op : {"setStatus"}, status : StatusArgs, step : StepArgs]
    \cup [op : {"complete"}]
    \cup [op : {"fail"}, message : MessageArgs]

\* the fields of tracker t after call c (for fail: when it reaches its emit)
Call(t, c) ==
    CASE c.op = "updateProgress" -> updateProgress(t, c.progress, c.step)
      [] c.op = "setStatus" -> setStatus(t, c.status, c.step)
      [] c.op = "complete" -> complete(t)
      [] OTHER -> fail(t, c.message)

\* the payloads of the events (documentId and elapsed left out)
ProgressEvent(t) ==
    [event |-> "progress", progress |-> t.progress, step |-> t.currentStep,
     status |-> t.status]

StatusEvent(t) ==
    [event |-> "status", status |-> t.status, step |-> t.currentStep,
     progress |-> t.progress]

ErrorEvent(message) == [event |-> "error", error |-> message]

\* the events call c on tracker t passes to this.emit, in order
Emitted(t, c) ==
    CASE c.op = "updateProgress" -> << ProgressEvent(Call(t, c)) >>
      [] c.op = "setStatus" -> << StatusEvent(Call(t, c)) >>
      [] c.op = "complete" ->
            << StatusEvent(setStatus(t, "completed", "Processing complete")),
               ProgressEvent(complete(t)) >>
      [] OTHER -> << StatusEvent(fail(t, c.message)), ErrorEvent(c.message) >>

\* call c ends by throwing: one of its emits throws
Throws(t, c) == \E n \in DOMAIN Emitted(t, c) : EmitThrows(Emitted(t, c)[n].event)

NotCalled == [op |-> "none"]

(* ------------------------------------------------------------------ *)
(* Document Record                                                     *)
(* ------------------------------------------------------------------ *)

NoRecord == [processingStatus |-> "absent"]

\* new Document({..., processingStatus: 'pending'}) with the schema defaults.
\* extractedText, extractedTables and metadata hold the number of the
\* ExtractionResult they were copied from, 0 for the schema's empty default.
NewDocument(ext) ==
    [ fileType         |-> ext,
      processingStatus |-> "pending",
      extractedText    |-> 0,
      extractedTables  |-> 0,
      metadata         |-> 0,
      extractionDate   |-> "created",
      errorMessage     |-> "null" ]

\* the update documents processDocument passes to findByIdAndUpdate
MarkProcessing == [kind |-> "processing", data |-> 0, message |-> ""]

CompletedFields(r) == [kind |-> "completed", data |-> r, message |-> ""]

FailedFields(message) == [kind |-> "failed", data |-> 0, message |-> message]

\* a findByIdAndUpdate call with update document w that has not settled yet
Issued(w) == [update |-> w, outcome |-> "pending"]

\* ApplyUpdate with an update that also overwrites errorMessage
ApplyUpdate_WritesErrorMessage(rec, w) ==
    IF w.kind = "processing" THEN [rec EXCEPT !.processingStatus = "processing"]
    ELSE IF w.kind = "completed" THEN
        [rec EXCEPT !.processingStatus = "completed",
                    !.extractedText    = w.data,
                    !.extractedTables  = w.data,
                    !.metadata         = w.data,
                    !.extractionDate   = "extracted",
                    !.errorMessage     = w.message]
    ELSE [rec EXCEPT !.processingStatus = "failed", !.errorMessage = w.message]

\* ApplyUpdate with a completed-fields update that leaves extractedTables out
ApplyUpdate_OmitsTables(rec, w) ==
    IF w.kind = "processing" THEN [rec EXCEPT !.processingStatus = "processing"]
    ELSE IF w.kind = "completed" THEN
        [rec EXCEPT !.processingStatus = "completed",
                    !.extractedText    = w.data,
                    !.metadata         = w.data,
                    !.extractionDate   = "extracted"]
    ELSE [rec EXCEPT !.processingStatus = "failed", !.errorMessage = w.message]

\* Document.findByIdAndUpdate(id, update) on a record the store holds
ApplyUpdate(rec, w) ==
    IF w.kind = "processing" THEN [rec EXCEPT !.processingStatus = "processing"]
    ELSE IF w.kind = "completed" THEN
        [rec EXCEPT !.processingStatus = "completed",
                    !.extractedText    = w.data,
                    !.extractedTables  = w.data,
                    !.metadata         = w.data,
                    !.extractionDate   = "extracted"]
    ELSE [rec EXCEPT !.processingStatus = "failed", !.errorMessage = w.message]

(* ------------------------------------------------------------------ *)
(* Errors and dispatch                                                 *)
(* ------------------------------------------------------------------ *)

UnsupportedMessage == "Unsupported file type"

\* what the raw-extraction engines fail with
EngineErrors == {"corrupt file"}

\* what the store fails with
StoreErrors == {"store unavailable"}

\* the extractor processDocument's switch selects, "none" in the default case
ExtractorFor(ext) ==
    CASE ext = "pdf" -> "extractPDFText"
      [] ext = "docx" -> "extractDOCXText"
      [] ext \in {"xlsx", "xls"} -> "extractExcelData"
      [] ext = "txt" -> "extractTXTText"
      [] ext \in {"jpg", "jpeg", "png"} -> "extractOCRText"
      [] OTHER -> "none"

\* ExtractorMessage of an extractor that reports a failure without its cause
ExtractorMessage_DropsCause(extractor, cause) ==
    CASE extractor = "extractPDFText" -> "Failed to extract PDF content"
      [] extractor = "extractDOCXText" -> "Failed to extract DOCX content"
      [] extractor = "extractExcelData" -> "Failed to extract Excel content"
      [] extractor = "extractTXTText" -> "Failed to extract TXT content"
      [] OTHER -> "Failed to extract OCR content"

\* the message of the Error an extractor rethrows for an engine error
ExtractorMessage(extractor, cause) ==
    CASE extractor = "extractPDFText" -> "Failed to extract PDF content: " \o cause
      [] extractor = "extractDOCXText" -> "Failed to extract DOCX content: " \o cause
      [] extractor = "extractExcelData" -> "Failed to extract Excel content: " \o cause
      [] extractor = "extractTXTText" -> "Failed to extract TXT content: " \o cause
      [] OTHER -> "Failed to extract OCR content: " \o cause

(* ------------------------------------------------------------------ *)
(* The registry: const activeProgress = new Map()                      *)
(* ------------------------------------------------------------------ *)

\* A Map as the sequence of its entries in insertion order.  A tracker in
\* it is named by its number in the order of construction; 0 is undefined.
MaxTrackers == 4

MapHas(m, k) == \E i \in DOMAIN m : m[i].key = k

\* Map.prototype.set that adds an entry whatever the Map holds
MapSet_Appends(m, k, v) == Append(m, [key |-> k, value |-> v])

\* Map.prototype.set: the value of an existing key is replaced in place
MapSet(m, k, v) ==
    IF MapHas(m, k)
    THEN [i \in DOMAIN m |-> IF m[i].key = k THEN [key |-> k, value |-> v] ELSE m[i]]
    ELSE Append(m, [key |-> k, value |-> v])

\* Map.prototype.get: the value of the first entry with the key, or undefined
MapGet(m, k) ==
    IF MapHas(m, k)
    THEN m[CHOOSE i \in DOMAIN m :
               m[i].key = k /\ \A h \in DOMAIN m : m[h].key = k => i <= h].value
    ELSE 0

\* Map.prototype.delete
MapDelete(m, k) == SelectSeq(m, LAMBDA e : e.key # k)

NoCall == [id |-> 0, value |-> 0]

(* ------------------------------------------------------------------ *)
(* extractDOCXText: the table heuristic                                *)
(* ------------------------------------------------------------------ *)

\* A string is the sequence of its characters, each a one-character string.
TAB == "\t"

LF == "\n"

\* the characters the class \s matches
IsSpace(c) == c \in {" ", TAB, LF}

\* String.prototype.trim
trim(str) ==
    LET inked == {k \in DOMAIN str : ~IsSpace(str[k])}
    IN  IF inked = {} THEN <<>>
        ELSE SubSeq(str, CHOOSE k \in inked : \A h \in inked : k <= h,
                         CHOOSE k \in inked : \A h \in inked : k >= h)

\* String.prototype.includes
includes(str, c) == \E k \in DOMAIN str : str[k] = c

\* the number of \s characters in a row from position p of str on
RECURSIVE SpaceRun(_, _)
SpaceRun(str, p) ==
    IF p > Len(str) \/ ~IsSpace(str[p]) THEN 0 ELSE 1 + SpaceRun(str, p + 1)

\* the patterns: /\s{2,}/, /\t|\s{2,}/ and /\s+/
Wide == "s{2,}"

TabOrWide == "t|s{2,}"

Spaces == "s+"

\* the length of the match of pattern at position p of str, 0 for none;
\* the alternative \t is tried first
MatchAt(str, p, pattern) ==
    IF pattern = TabOrWide /\ str[p] = TAB THEN 1
    ELSE IF SpaceRun(str, p) >= (IF pattern = Spaces THEN 1 ELSE 2)
         THEN SpaceRun(str, p)
         ELSE 0

\* String.prototype.split scans str for matches from left to right.  A scan
\* stands at position p, the piece in progress began at from, and pieces are
\* the pieces cut so far; the scan is over once p is Len(str) + 2.
ScanStart == [p |-> 1, from |-> 1, pieces |-> <<>>]

\* one step of the scan: over a match, over a character, or the last piece
ScanStep(str, pattern, sc) ==
    IF sc.p > Len(str) + 1 THEN sc
    ELSE IF sc.p = Len(str) + 1
    THEN [ p |-> sc.p + 1, from |-> sc.from,
           pieces |-> Append(sc.pieces, SubSeq(str, sc.from, Len(str))) ]
    ELSE IF MatchAt(str, sc.p, pattern) > 0
    THEN [ p |-> sc.p + MatchAt(str, sc.p, pattern),
           from |-> sc.p + MatchAt(str, sc.p, pattern),
           pieces |-> Append(sc.pieces, SubSeq(str, sc.from, sc.p - 1)) ]
    ELSE [sc EXCEPT !.p = sc.p + 1]

\* n steps of the scan (taken as two halves, to keep the evaluation shallow)
RECURSIVE Scan(_, _, _, _)
Scan(str, pattern, sc, n) ==
    IF n = 0 THEN sc
    ELSE IF n = 1 THEN ScanStep(str, pattern, sc)
    ELSE LET half == Scan(str, pattern, sc, n \div 2)
         IN  IF half.p > Len(str) + 1 THEN half
             ELSE Scan(str, pattern, half, n - (n \div 2))

split(str, pattern) == Scan(str, pattern, ScanStart, Len(str) + 1).pieces

\* line.includes('\t') || line.split(/\s{2,}/).length > 2, on the trimmed line
LooksLikeRow(line) == includes(line, TAB) \/ Len(split(line, Wide)) > 2

\* line.split(/\t|\s{2,}/).filter(cell => cell.trim() !== '')
Cells(line) == SelectSeq(split(line, TabOrWide), LAMBDA cell : trim(cell) # <<>>)

\* the table pushed for the rows collected in currentTable
DocxTable(rows, index) ==
    [ pageNumber |-> 1,
      tableIndex |-> index,
      data       |-> rows,
      structure  |-> [ rows    |-> Len(rows),
                       columns |-> IF rows # <<>> THEN Len(rows[1]) ELSE 0 ] ]

(* ------------------------------------------------------------------ *)
(* extractTXTText, extractDOCXText, extractOCRText: the page estimate  *)
(* ------------------------------------------------------------------ *)

WordsPerPage == 500

\* Math.ceil(a / b) that rounds down
ceil_RoundsDown(a, b) == a \div b

\* Math.ceil(a / b) for integers a >= 0, b > 0
ceil(a, b) == IF a % b = 0 THEN a \div b ELSE (a \div b) + 1

\* text.split(/\s+/).filter(word => word.length > 0).length
wordCount(str) == Len(SelectSeq(split(str, Spaces), LAMBDA word : Len(word) > 0))

\* Math.max(1, Math.ceil(wordCount / 500))
estimatedPages(str) == Max(1, ceil(wordCount(str), WordsPerPage))

\* Array.from({ length: n }, (_, i) => i + 1)
ArrayFromLength(n) == [k \in 1..n |-> k]

\* the metadata the three extractors return for text str
PageMetadata(str, confidence) ==
    [ pageCount            |-> estimatedPages(str),
      extractionConfidence |-> confidence,
      processedPages       |-> ArrayFromLength(estimatedPages(str)) ]

(* ------------------------------------------------------------------ *)
(* State                                                               *)
(* ------------------------------------------------------------------ *)

VARIABLES
    pc,             \* where the upload request j and its processDocument run stand
    fileType,       \* fileExt of upload j, "undefined" until it is computed
    record,         \* the Document collection: the record of job j, or NoRecord
    tracker,        \* the ProgressTracker object of job j
    activeProgress, \* the ids that activeProgress maps (to the tracker of that id)
    extractedData,  \* processDocument's extractedData, 0 while undefined
    thrown,         \* the message of the error processDocument's catch received
    writes,         \* the findByIdAndUpdate calls processDocument j has made
    invoked,        \* the extractors processDocument j has invoked
    timers,         \* the cleanup timers processDocument j has scheduled
    fired,          \* the cleanup timers of job j that have fired
    response,       \* the response uploadDocument has sent for request j
    rejected,       \* the jobs whose processDocument promise was rejected
    poll,           \* the getDocumentProgress call in flight or last answered
    lastProgress,   \* the progress the last 200 answer for id j carried, -1 if none
    lastStatus,     \* the status the last 200 answer for id j carried, "" if none
    registry,       \* a Map like activeProgress, driven call by call: its entries
    made,           \* the number of trackers constructed for registry
    latest,         \* per id, the tracker of its last create not followed by a remove
    got,            \* the id and the tracker of the last call on registry that returned one
    lines,          \* extractDOCXText: lines, the text split at its newlines
    lineIndex,      \* extractDOCXText: i, the number of lines the loop has taken
    currentTable,   \* extractDOCXText: currentTable
    tableIndex,     \* extractDOCXText: tableIndex
    tables,         \* extractDOCXText: extractedTables
    docxPc,         \* extractDOCXText: "loop" in the for loop, "returned" after it
    text,           \* the text an extractor has read, whose pages it estimates
    extracted,      \* what that extractor returned
    workbook,       \* extractExcelData: the sheets of workbook, in SheetNames order
    sheetIndex,     \* extractExcelData: the number of sheets forEach has taken
    excelTables,    \* extractExcelData: extractedTables
    combinedText,   \* extractExcelData: combinedText
    excelResult,    \* extractExcelData: what it returned
    unit,           \* a ProgressTracker whose methods are called in any order
    lastCall,       \* the last call on unit, unit before it, its events, how it ended
    pdfPages,       \* extractPDFText: what getPageTables gives for each page of the file
    pdfText,        \* extractPDFText: textResult.text
    pageNum,        \* extractPDFText: pageNum
    pdfTables,      \* extractPDFText: extractedTables
    pdfPc,          \* extractPDFText: "load", "loop", "returned" or "threw"
    pdfResult       \* extractPDFText: what it returned or threw

vars == << pc, fileType, record, tracker, activeProgress, extractedData, thrown,
           writes, invoked, timers, fired, response, rejected, poll, lastProgress, lastStatus,
           registry, made, latest, got,
           lines, lineIndex, currentTable, tableIndex, tables, docxPc,
           text, extracted,
           workbook, sheetIndex, excelTables, combinedText, excelResult,
           unit, lastCall,
           pdfPages, pdfText, pageNum, pdfTables, pdfPc, pdfResult >>

progVars == << pc, fileType, record, tracker, activeProgress, extractedData, thrown,
               writes, invoked, timers, fired, response, rejected, poll, lastProgress,
               lastStatus >>

\* the variables of the registry functions called by themselves
regVars == << registry, made, latest, got >>

\* the variables of an extractDOCXText call by itself
docxVars == << lines, lineIndex, currentTable, tableIndex, tables, docxPc >>

\* the variables of an extractor estimating the pages of a text
pageVars == << text, extracted >>

\* the variables of an extractExcelData call by itself
excelVars == << workbook, sheetIndex, excelTables, combinedText, excelResult >>

\* the variables of a tracker called by itself
trackerVars == << unit, lastCall >>

\* the variables of an extractPDFText call by itself
pdfVars == << pdfPages, pdfText, pageNum, pdfTables, pdfPc, pdfResult >>

\* what the handlers of the server leave alone
unitVars == << regVars, docxVars, pageVars, excelVars, trackerVars, pdfVars >>

NoResponse == [code |-> 0, body |-> ""]

NoPoll == [phase |-> "none"]

ProgInit ==
    /\ pc = [j \in Jobs |-> "idle"]
    /\ fileType = [j \in Jobs |-> "undefined"]
    /\ record = [j \in Jobs |-> NoRecord]
    /\ tracker = [j \in Jobs |-> NoTracker]
    /\ activeProgress = {}
    /\ extractedData = [j \in Jobs |-> 0]
    /\ thrown = [j \in Jobs |-> ""]
    /\ writes = [j \in Jobs |-> <<>>]
    /\ invoked = [j \in Jobs |-> <<>>]
    /\ timers = [j \in Jobs |-> 0]
    /\ fired = [j \in Jobs |-> 0]
    /\ response = [j \in Jobs |-> NoResponse]
    /\ rejected = {}
    /\ poll = NoPoll
    /\ lastProgress = [j \in Jobs |-> -1]
    /\ lastStatus = [j \in Jobs |-> ""]

\* the registry before any call
RegistryIdle ==
    /\ registry = <<>>
    /\ made = 0
    /\ latest = [id \in Jobs |-> 0]
    /\ got = NoCall

\* no extractDOCXText call under way
DocxIdle ==
    /\ lines = <<>>
    /\ lineIndex = 0
    /\ currentTable = <<>>
    /\ tableIndex = 0
    /\ tables = <<>>
    /\ docxPc = "idle"

NoExtraction == [by |-> "none"]

\* no text read
PageIdle ==
    /\ text = <<>>
    /\ extracted = NoExtraction

\* no workbook read
ExcelIdle ==
    /\ workbook = <<>>
    /\ sheetIndex = 0
    /\ excelTables = <<>>
    /\ combinedText = <<>>
    /\ excelResult = NoExtraction

\* a tracker as its constructor leaves it
TrackerIdle ==
    /\ unit = NewTracker
    /\ lastCall = [call |-> NotCalled]

\* no extractPDFText call
PdfIdle ==
    /\ pdfPages = <<>>
    /\ pdfText = <<>>
    /\ pageNum = 0
    /\ pdfTables = <<>>
    /\ pdfPc = "idle"
    /\ pdfResult = NoExtraction

Init ==
    ProgInit /\ RegistryIdle /\ DocxIdle /\ PageIdle /\ ExcelIdle /\ TrackerIdle /\ PdfIdle

\* A response that was sent has left the process: poll outlives a step of
\* another handler only while its getDocumentProgress call awaits findById.
PollMovesOn ==
    /\ poll' = IF poll.phase = "lookup" THEN poll ELSE NoPoll
    /\ UNCHANGED << lastProgress, lastStatus >>

(* ------------------------------------------------------------------ *)
(* uploadDocument                                                      *)
(* ------------------------------------------------------------------ *)

\* Upload request j arrives: the validation, then new Document(...) and the
\* call of document.save().  Requests are numbered in the order they arrive.
UploadRequest(j, file) ==
    /\ pc[j] = "idle"
    /\ \A k \in Jobs : k < j => pc[k] # "idle"
    /\ fileType' = [fileType EXCEPT ![j] =
                       IF file.present THEN fileExtOf(file.originalname) ELSE @]
    /\ IF ValidationError(file) # ""
       THEN /\ response' = [response EXCEPT ![j] =
                               [code |-> 400, body |-> ValidationError(file)]]
            /\ pc' = [pc EXCEPT ![j] = "rejected"]
       ELSE /\ pc' = [pc EXCEPT ![j] = "save"]
            /\ UNCHANGED response
    /\ UNCHANGED << record, tracker, activeProgress, extractedData, thrown, writes,
                    invoked, timers, fired, rejected >>
    /\ PollMovesOn
    /\ UNCHANGED unitVars

\* The store inserts the record of document.save()
SaveApplied(j) ==
    /\ pc[j] = "save"
    /\ record' = [record EXCEPT ![j] = NewDocument(fileType[j])]
    /\ pc' = [pc EXCEPT ![j] = "saved"]
    /\ UNCHANGED << fileType, tracker, activeProgress, extractedData, thrown, writes,
                    invoked, timers, fired, response, rejected >>
    /\ PollMovesOn
    /\ UNCHANGED unitVars

\* SaveThrows of an uploadDocument that creates the tracker before it saves
SaveThrows_TrackerFirst(j) ==
    /\ pc[j] = "save"
    /\ response' = [response EXCEPT ![j] = [code |-> 500, body |-> "UPLOAD_ERROR"]]
    /\ pc' = [pc EXCEPT ![j] = "rejected"]
    /\ tracker' = [tracker EXCEPT ![j] =
                      setStatus(NewTracker, "processing", "Starting document processing")]
    /\ activeProgress' = activeProgress \cup {j}
    /\ UNCHANGED << fileType, record, extractedData, thrown,
                    writes, invoked, timers, fired, rejected >>
    /\ PollMovesOn
    /\ UNCHANGED unitVars

\* document.save() rejects: uploadDocument's catch answers 500
SaveThrows(j) ==
    /\ pc[j] = "save"
    /\ response' = [response EXCEPT ![j] = [code |-> 500, body |-> "UPLOAD_ERROR"]]
    /\ pc' = [pc EXCEPT ![j] = "rejected"]
    /\ UNCHANGED << fileType, record, tracker, activeProgress, extractedData, thrown,
                    writes, invoked, timers, fired, rejected >>
    /\ PollMovesOn
    /\ UNCHANGED unitVars

\* UploadContinue that awaits processDocument instead of answering
UploadContinue_AwaitsRun(j) ==
    /\ pc[j] = "saved"
    /\ tracker' = [tracker EXCEPT ![j] =
                      setStatus(NewTracker, "processing", "Starting document processing")]
    /\ activeProgress' = activeProgress \cup {j}
    /\ writes' = [writes EXCEPT ![j] = Append(@, Issued(MarkProcessing))]
    /\ pc' = [pc EXCEPT ![j] = "mark"]
    /\ UNCHANGED << fileType, record, extractedData, thrown, invoked, timers, fired,
                    response, rejected >>
    /\ PollMovesOn
    /\ UNCHANGED unitVars

\* UploadContinue without progressTracker.setStatus('processing', ...)
UploadContinue_LeavesPending(j) ==
    /\ pc[j] = "saved"
    /\ tracker' = [tracker EXCEPT ![j] = NewTracker]
    /\ activeProgress' = activeProgress \cup {j}
    /\ writes' = [writes EXCEPT ![j] = Append(@, Issued(MarkProcessing))]
    /\ pc' = [pc EXCEPT ![j] = "mark"]
    /\ response' = [response EXCEPT ![j] =
                       [code |-> 201, body |-> NewDocument(fileType[j]).processingStatus]]
    /\ UNCHANGED << fileType, record, extractedData, thrown, invoked, timers, fired,
                    rejected >>
    /\ PollMovesOn
    /\ UNCHANGED unitVars

\* The rest of uploadDocument after document.save() has resolved:
\* createProgressTracker, setStatus('processing'), the call of processDocument
\* (which runs up to its first await, the findByIdAndUpdate that marks the
\* record 'processing') and the 201 response, whose status is the
\* processingStatus of the local document object.
UploadContinue_SchedulesCleanup(j) ==
    /\ pc[j] = "saved"
    /\ tracker' = [tracker EXCEPT ![j] =
                      setStatus(NewTracker, "processing", "Starting document processing")]
    /\ activeProgress' = activeProgress \cup {j}
    /\ writes' = [writes EXCEPT ![j] = Append(@, Issued(MarkProcessing))]
    /\ pc' = [pc EXCEPT ![j] = "mark"]
    /\ timers' = [timers EXCEPT ![j] = @ + 1]
    /\ response' = [response EXCEPT ![j] =
                       [code |-> 201, body |-> NewDocument(fileType[j]).processingStatus]]
    /\ UNCHANGED << fileType, record, extractedData, thrown, invoked, fired,
                    rejected >>
    /\ PollMovesOn
    /\ UNCHANGED unitVars

UploadContinue(j) ==
    /\ pc[j] = "saved"
    /\ tracker' = [tracker EXCEPT ![j] =
                      setStatus(NewTracker, "processing", "Starting document processing")]
    /\ activeProgress' = activeProgress \cup {j}
    /\ writes' = [writes EXCEPT ![j] = Append(@, Issued(MarkProcessing))]
    /\ pc' = [pc EXCEPT ![j] = "mark"]
    /\ response' = [response EXCEPT ![j] =
                       [code |-> 201, body |-> NewDocument(fileType[j]).processingStatus]]
    /\ UNCHANGED << fileType, record, extractedData, thrown, invoked, timers, fired,
                    rejected >>
    /\ PollMovesOn
    /\ UNCHANGED unitVars

(* ------------------------------------------------------------------ *)
(* processDocument                                                     *)
(* ------------------------------------------------------------------ *)

\* finally: setTimeout(() => removeProgressTracker(documentId), 5 * 60 * 1000)
Finally(j) == timers' = [timers EXCEPT ![j] = @ + 1]

\* Escape of a processDocument that schedules the cleanup in its try block only
Escape_NoFinally(j) ==
    /\ UNCHANGED timers
    /\ pc' = [pc EXCEPT ![j] = "done"]
    /\ rejected' = rejected \cup {j}

\* An exception leaves processDocument: finally runs and the promise that
\* uploadDocument dropped is rejected.  (A runtime that ends the process on
\* an unhandled rejection cuts the behaviour short at this step.)
Escape(j) ==
    /\ Finally(j)
    /\ pc' = [pc EXCEPT ![j] = "done"]
    /\ rejected' = rejected \cup {j}

\* catch (error): progressTracker.fail(error), then the failed-fields write.
\* t is the tracker and ws are the run's store calls as the try block left them.
Catch(j, t, ws, message) ==
    /\ thrown' = [thrown EXCEPT ![j] = message]
    /\ tracker' = [tracker EXCEPT ![j] = fail(t, message)]
    /\ IF EmitThrows("error")
       THEN /\ Escape(j)
            /\ writes' = [writes EXCEPT ![j] = ws]
       ELSE /\ writes' = [writes EXCEPT ![j] = Append(ws, Issued(FailedFields(message)))]
            /\ pc' = [pc EXCEPT ![j] = "failWrite"]
            /\ UNCHANGED << timers, rejected >>

\* the findByIdAndUpdate call that was made last settles with outcome o
Settle(ws, o) == [ws EXCEPT ![Len(ws)].outcome = o]

WritePcs == {"mark", "final", "failWrite"}

AppliedPc(p) ==
    CASE p = "mark" -> "markOk" [] p = "final" -> "finalOk" [] OTHER -> "failWriteOk"

\* WriteApplied of a store that resolves the call before it has applied it
WriteApplied_NotYetApplied(j) ==
    /\ pc[j] \in WritePcs
    /\ writes' = [writes EXCEPT ![j] = Settle(@, "resolved")]
    /\ pc' = [pc EXCEPT ![j] = AppliedPc(pc[j])]
    /\ UNCHANGED << fileType, record, tracker, activeProgress, extractedData, thrown,
                    invoked, timers, fired, response, rejected >>
    /\ PollMovesOn
    /\ UNCHANGED unitVars

\* The store applies the findByIdAndUpdate that run j awaits; on a deleted
\* record it changes nothing and resolves with null.
WriteApplied(j) ==
    /\ pc[j] \in WritePcs
    /\ record' = [record EXCEPT ![j] =
                     IF @.processingStatus = "absent" THEN @
                     ELSE ApplyUpdate(@, writes[j][Len(writes[j])].update)]
    /\ writes' = [writes EXCEPT ![j] = Settle(@, "resolved")]
    /\ pc' = [pc EXCEPT ![j] = AppliedPc(pc[j])]
    /\ UNCHANGED << fileType, tracker, activeProgress, extractedData, thrown,
                    invoked, timers, fired, response, rejected >>
    /\ PollMovesOn
    /\ UNCHANGED unitVars

\* The findByIdAndUpdate that run j awaits rejects.  In the try block the
\* catch block takes it; in the catch block it leaves processDocument.
WriteThrows(j, e) ==
    /\ pc[j] \in WritePcs
    /\ IF pc[j] = "failWrite"
       THEN /\ Escape(j)
            /\ writes' = [writes EXCEPT ![j] = Settle(@, "rejected")]
            /\ UNCHANGED << tracker, thrown >>
       ELSE Catch(j, tracker[j], Settle(writes[j], "rejected"), e)
    /\ UNCHANGED << fileType, record, activeProgress, extractedData, invoked, fired,
                    response >>
    /\ PollMovesOn
    /\ UNCHANGED unitVars

\* String.prototype.toUpperCase on the file-type tags
toUpperCase(s) ==
    CASE s = "pdf" -> "PDF"
      [] s = "docx" -> "DOCX"
      [] s = "xlsx" -> "XLSX"
      [] s = "xls" -> "XLS"
      [] s = "txt" -> "TXT"
      [] s = "jpg" -> "JPG"
      [] s = "jpeg" -> "JPEG"
      [] s = "png" -> "PNG"
      [] s = "bmp" -> "BMP"
      [] OTHER -> s

\* BeforeExtractor with the checkpoints 30 and 10 in the other order
BeforeExtractor_Reordered(t, ext) ==
    LET t30 == updateProgress(t, 30, "Processing " \o toUpperCase(ext) \o " file")
        t10 == updateProgress(t30, 10, "Reading file")
    IN  IF ext \in {"jpg", "jpeg", "png"}
        THEN updateProgress(t10, 50, "Performing OCR on image")
        ELSE t10

\* the tracker after the checkpoints that precede the extractor call
BeforeExtractor(t, ext) ==
    LET t10 == updateProgress(t, 10, "Reading file")
        t30 == updateProgress(t10, 30, "Processing " \o toUpperCase(ext) \o " file")
    IN  IF ext \in {"jpg", "jpeg", "png"}
        THEN updateProgress(t30, 50, "Performing OCR on image")
        ELSE t30

\* processDocument continues after an awaited findByIdAndUpdate has resolved.
\*   after the mark-processing write: progress 10 and 30, then the switch
\*     (progress 50 and the OCR extractor for images; the default case throws);
\*   after the completed-fields write: complete(), then finally;
\*   after the failed-fields write: finally.
ProcessResume(j) ==
    /\ pc[j] \in {"markOk", "finalOk", "failWriteOk"}
    /\ IF pc[j] = "markOk"
       THEN IF ExtractorFor(fileType[j]) # "none"
            THEN /\ tracker' = [tracker EXCEPT ![j] = BeforeExtractor(@, fileType[j])]
                 /\ invoked' = [invoked EXCEPT ![j] = Append(@, ExtractorFor(fileType[j]))]
                 /\ pc' = [pc EXCEPT ![j] = "extract"]
                 /\ UNCHANGED << thrown, writes, timers, rejected >>
            ELSE /\ Catch(j, BeforeExtractor(tracker[j], fileType[j]), writes[j],
                         UnsupportedMessage)
                 /\ UNCHANGED invoked
       ELSE /\ tracker' = [tracker EXCEPT ![j] =
                              IF pc[j] = "finalOk" THEN complete(@) ELSE @]
            /\ Finally(j)
            /\ pc' = [pc EXCEPT ![j] = "done"]
            /\ UNCHANGED << thrown, writes, invoked, rejected >>
    /\ UNCHANGED << fileType, record, activeProgress, extractedData, fired, response >>
    /\ PollMovesOn
    /\ UNCHANGED unitVars

\* ExtractorReturns that calls complete() before the completed-fields write
ExtractorReturns_CompletesFirst(j, r) ==
    /\ pc[j] = "extract"
    /\ extractedData' = [extractedData EXCEPT ![j] = r]
    /\ tracker' = [tracker EXCEPT ![j] =
                      complete(updateProgress(@, 80, "Saving extracted data"))]
    /\ writes' = [writes EXCEPT ![j] = Append(@, Issued(CompletedFields(r)))]
    /\ pc' = [pc EXCEPT ![j] = "final"]
    /\ UNCHANGED << fileType, record, activeProgress, thrown, invoked, timers, fired,
                    response, rejected >>
    /\ PollMovesOn
    /\ UNCHANGED unitVars

\* The extractor returns result r: progress 80, then the completed-fields write
ExtractorReturns(j, r) ==
    /\ pc[j] = "extract"
    /\ extractedData' = [extractedData EXCEPT ![j] = r]
    /\ tracker' = [tracker EXCEPT ![j] = updateProgress(@, 80, "Saving extracted data")]
    /\ writes' = [writes EXCEPT ![j] = Append(@, Issued(CompletedFields(r)))]
    /\ pc' = [pc EXCEPT ![j] = "final"]
    /\ UNCHANGED << fileType, record, activeProgress, thrown, invoked, timers, fired,
                    response, rejected >>
    /\ PollMovesOn
    /\ UNCHANGED unitVars

\* ExtractorThrows of a run that goes back to the switch after a failure
ExtractorThrows_Retries(j, cause) ==
    /\ pc[j] = "extract"
    /\ pc' = [pc EXCEPT ![j] = "markOk"]
    /\ thrown' = [thrown EXCEPT ![j] = ExtractorMessage(ExtractorFor(fileType[j]), cause)]
    /\ UNCHANGED << fileType, record, tracker, activeProgress, extractedData, writes,
                    invoked, timers, fired, response, rejected >>
    /\ PollMovesOn
    /\ UNCHANGED unitVars

\* The extractor's engine fails with cause: the extractor throws its own Error
ExtractorThrows(j, cause) ==
    /\ pc[j] = "extract"
    /\ Catch(j, tracker[j], writes[j],
             ExtractorMessage(ExtractorFor(fileType[j]), cause))
    /\ UNCHANGED << fileType, record, activeProgress, extractedData, invoked, fired,
                    response >>
    /\ PollMovesOn
    /\ UNCHANGED unitVars

\* CleanupTimerFires with a callback that removes nothing
CleanupTimerFires_KeepsTracker(j) ==
    /\ fired[j] < timers[j]
    /\ fired' = [fired EXCEPT ![j] = @ + 1]
    /\ UNCHANGED << pc, fileType, record, tracker, activeProgress, extractedData,
                    thrown, writes, invoked, timers, response, rejected >>
    /\ PollMovesOn
    /\ UNCHANGED unitVars

\* A cleanup timer of job j fires: removeProgressTracker(documentId)
CleanupTimerFires_ClearsRegistry(j) ==
    /\ fired[j] < timers[j]
    /\ fired' = [fired EXCEPT ![j] = @ + 1]
    /\ activeProgress' = {}
    /\ UNCHANGED << pc, fileType, record, tracker, extractedData, thrown, writes,
                    invoked, timers, response, rejected >>
    /\ PollMovesOn
    /\ UNCHANGED unitVars

CleanupTimerFires(j) ==
    /\ fired[j] < timers[j]
    /\ fired' = [fired EXCEPT ![j] = @ + 1]
    /\ activeProgress' = activeProgress \ {j}
    /\ UNCHANGED << pc, fileType, record, tracker, extractedData, thrown, writes,
                    invoked, timers, response, rejected >>
    /\ PollMovesOn
    /\ UNCHANGED unitVars

(* ------------------------------------------------------------------ *)
(* deleteDocument and getDocumentProgress                              *)
(* ------------------------------------------------------------------ *)

\* deleteDocument finds the record and findByIdAndDelete removes it
DeleteDocument(j) ==
    /\ record[j].processingStatus # "absent"
    /\ record' = [record EXCEPT ![j] = NoRecord]
    /\ UNCHANGED << pc, fileType, tracker, activeProgress, extractedData, thrown,
                    writes, invoked, timers, fired, response, rejected >>
    /\ PollMovesOn
    /\ UNCHANGED unitVars

\* getProgressTracker(documentId)
getProgressTracker(j) == IF j \in activeProgress THEN tracker[j] ELSE NoTracker

\* getDocumentProgress for id j up to its response or its await: with a
\* tracker it answers from the tracker, without one it calls findById.
ProgressRequest(j) ==
    /\ poll.phase # "lookup"
    /\ poll' = IF getProgressTracker(j).status # "absent"
               THEN [ phase |-> "answered", id |-> j,
                      code |-> 200, source |-> "tracker",
                      status |-> getProgressTracker(j).status,
                      progress |-> getProgressTracker(j).progress ]
               ELSE [ phase |-> "lookup", id |-> j ]
    /\ lastProgress' = IF poll'.phase = "answered"
                       THEN [lastProgress EXCEPT ![j] = poll'.progress]
                       ELSE lastProgress
    /\ lastStatus' = IF poll'.phase = "answered"
                     THEN [lastStatus EXCEPT ![j] = poll'.status]
                     ELSE lastStatus
    /\ UNCHANGED unitVars
    /\ UNCHANGED << pc, fileType, record, tracker, activeProgress, extractedData,
                    thrown, writes, invoked, timers, fired, response, rejected >>

\* Document.findById resolves: 404 without a record, else the record's status
ProgressFromRecord ==
    /\ poll.phase = "lookup"
    /\ poll' = IF record[poll.id].processingStatus = "absent"
               THEN [ phase |-> "answered", id |-> poll.id,
                      code |-> 404, source |-> "record",
                      status |-> "DOCUMENT_NOT_FOUND", progress |-> 0 ]
               ELSE [ phase |-> "answered", id |-> poll.id,
                      code |-> 200, source |-> "record",
                      status |-> record[poll.id].processingStatus,
                      progress |-> IF record[poll.id].processingStatus = "completed"
                                   THEN 100 ELSE 0 ]
    /\ lastProgress' = IF poll'.code = 200
                       THEN [lastProgress EXCEPT ![poll.id] = poll'.progress]
                       ELSE lastProgress
    /\ lastStatus' = IF poll'.code = 200
                     THEN [lastStatus EXCEPT ![poll.id] = poll'.status]
                     ELSE lastStatus
    /\ UNCHANGED unitVars
    /\ UNCHANGED << pc, fileType, record, tracker, activeProgress, extractedData,
                    thrown, writes, invoked, timers, fired, response, rejected >>

\* Document.findById rejects: getDocumentProgress's catch answers 500
ProgressLookupThrows ==
    /\ poll.phase = "lookup"
    /\ poll' = [ phase |-> "answered", id |-> poll.id,
                 code |-> 500, source |-> "none",
                 status |-> "GET_PROGRESS_ERROR", progress |-> 0 ]
    /\ UNCHANGED << lastProgress, lastStatus >>
    /\ UNCHANGED << pc, fileType, record, tracker, activeProgress, extractedData,
                    thrown, writes, invoked, timers, fired, response, rejected >>
    /\ UNCHANGED unitVars

(* ------------------------------------------------------------------ *)
(* Specification                                                       *)
(* ------------------------------------------------------------------ *)

Next ==
    \/ \E j \in Jobs, file \in InputFiles : UploadRequest(j, file)
    \/ \E j \in Jobs : SaveApplied(j)
    \/ \E j \in Jobs : SaveThrows(j)
    \/ \E j \in Jobs : UploadContinue(j)
    \/ \E j \in Jobs : WriteApplied(j)
    \/ \E j \in Jobs, e \in StoreErrors : WriteThrows(j, e)
    \/ \E j \in Jobs : ProcessResume(j)
    \/ \E j \in Jobs, r \in Results : ExtractorReturns(j, r)
    \/ \E j \in Jobs, c \in EngineErrors : ExtractorThrows(j, c)
    \/ \E j \in Jobs : CleanupTimerFires(j)
    \/ \E j \in Jobs : DeleteDocument(j)
    \/ \E j \in Jobs : ProgressRequest(j)
    \/ ProgressFromRecord
    \/ ProgressLookupThrows

Spec == Init /\ [][Next]_vars

(* ------------------------------------------------------------------ *)
(* The registry functions called in any order                          *)
(* ------------------------------------------------------------------ *)

\* createProgressTracker(id): a new tracker, set under id and returned
CreateCall(id) ==
    /\ made < MaxTrackers
    /\ made' = made + 1
    /\ registry' = MapSet(registry, id, made + 1)
    /\ latest' = [latest EXCEPT ![id] = made + 1]
    /\ got' = [id |-> id, value |-> made + 1]
    /\ UNCHANGED << progVars, docxVars, pageVars, excelVars, trackerVars, pdfVars >>

\* getProgressTracker(id)
GetCall(id) ==
    /\ got' = [id |-> id, value |-> MapGet(registry, id)]
    /\ UNCHANGED << registry, made, latest >>
    /\ UNCHANGED << progVars, docxVars, pageVars, excelVars, trackerVars, pdfVars >>

\* removeProgressTracker(id), which returns nothing
RemoveCall(id) ==
    /\ registry' = MapDelete(registry, id)
    /\ latest' = [latest EXCEPT ![id] = 0]
    /\ got' = NoCall
    /\ UNCHANGED made
    /\ UNCHANGED << progVars, docxVars, pageVars, excelVars, trackerVars, pdfVars >>

RegistryNext ==
    \/ \E id \in Jobs : CreateCall(id)
    \/ \E id \in Jobs : GetCall(id)
    \/ \E id \in Jobs : RemoveCall(id)

RegistrySpec == Init /\ [][RegistryNext]_vars

(* ------------------------------------------------------------------ *)
(* The methods of one tracker called in any order                      *)
(* ------------------------------------------------------------------ *)

\* call c is made on unit: the fields it assigns, the events it emits, and
\* whether it returned or threw
CallOnUnit(c) ==
    /\ unit' = Call(unit, c)
    /\ lastCall' = [ call    |-> c,
                     before  |-> unit,
                     emitted |-> Emitted(unit, c),
                     ended   |-> IF Throws(unit, c) THEN "threw" ELSE "returned" ]
    /\ UNCHANGED << progVars, regVars, docxVars, pageVars, excelVars, pdfVars >>

UpdateProgressCall(progress, step) ==
    CallOnUnit([op |-> "updateProgress", progress |-> progress, step |-> step])

SetStatusCall(status, step) ==
    CallOnUnit([op |-> "setStatus", status |-> status, step |-> step])

CompleteCall == CallOnUnit([op |-> "complete"])

FailCall(message) == CallOnUnit([op |-> "fail", message |-> message])

TrackerNext ==
    \/ \E v \in ProgressArgs, step \in StepArgs : UpdateProgressCall(v, step)
    \/ \E st \in StatusArgs, step \in StepArgs : SetStatusCall(st, step)
    \/ CompleteCall
    \/ \E m \in MessageArgs : FailCall(m)

TrackerSpec == Init /\ [][TrackerNext]_vars

(* ------------------------------------------------------------------ *)
(* extractDOCXText on a text, one loop iteration at a time             *)
(* ------------------------------------------------------------------ *)

MaxLines == 4

\* lines of text: tab-separated, wide-space-separated, plain, blank
InputLines ==
    { << "a", TAB, "b", TAB, "c" >>,
      << "1", TAB, "2", TAB, "3" >>,
      << " ", "x", TAB, " ", "y", TAB >>,
      << "a", " ", " ", "b", " ", " ", "c" >>,
      << "a", " ", " ", "b" >>,
      << "n", "o", " ", "t" >>,
      << TAB, " " >>,
      << >> }

\* text.split('\n') has at least one line
ShortTexts == UNION { [1..n -> InputLines] : n \in 1..MaxLines }

\* longer texts, with room for three tables, of one row line and one
\* line that is not a row
MaxLongLines == 8

LongTexts ==
    UNION { [1..n -> { << "a", TAB, "b", TAB, "c" >>, << "n", "o", " ", "t" >> }] :
                n \in (MaxLines + 1)..MaxLongLines }

InputTexts == ShortTexts \cup LongTexts

DocxInit ==
    /\ ProgInit
    /\ PdfIdle
    /\ RegistryIdle
    /\ TrackerIdle
    /\ PageIdle
    /\ ExcelIdle
    /\ lines \in InputTexts
    /\ lineIndex = 0
    /\ currentTable = <<>>
    /\ tableIndex = 0
    /\ tables = <<>>
    /\ docxPc = "loop"

\* LoopBody that pushes a table for any non-empty currentTable
LoopBody_PushesSingleRow ==
    /\ docxPc = "loop"
    /\ lineIndex < Len(lines)
    /\ lineIndex' = lineIndex + 1
    /\ LET line == trim(lines[lineIndex + 1])
       IN  IF LooksLikeRow(line)
           THEN /\ currentTable' = IF Len(Cells(line)) > 1
                                   THEN Append(currentTable, Cells(line))
                                   ELSE currentTable
                /\ UNCHANGED << tables, tableIndex >>
           ELSE IF Len(currentTable) > 0
           THEN /\ tables' = Append(tables, DocxTable(currentTable, tableIndex))
                /\ tableIndex' = tableIndex + 1
                /\ currentTable' = <<>>
           ELSE UNCHANGED << currentTable, tables, tableIndex >>
    /\ UNCHANGED << lines, docxPc >>
    /\ UNCHANGED << progVars, regVars, pageVars, excelVars, trackerVars, pdfVars >>

\* LoopBody that spends an index on every candidate a non-row line ends
LoopBody_CountsCandidates ==
    /\ docxPc = "loop"
    /\ lineIndex < Len(lines)
    /\ lineIndex' = lineIndex + 1
    /\ LET line == trim(lines[lineIndex + 1])
       IN  IF LooksLikeRow(line)
           THEN /\ currentTable' = IF Len(Cells(line)) > 1
                                   THEN Append(currentTable, Cells(line))
                                   ELSE currentTable
                /\ UNCHANGED << tables, tableIndex >>
           ELSE IF Len(currentTable) > 0
           THEN /\ tables' = IF Len(currentTable) > 1
                             THEN Append(tables, DocxTable(currentTable, tableIndex))
                             ELSE tables
                /\ tableIndex' = tableIndex + 1
                /\ currentTable' = <<>>
           ELSE UNCHANGED << currentTable, tables, tableIndex >>
    /\ UNCHANGED << lines, docxPc >>
    /\ UNCHANGED << progVars, regVars, pageVars, excelVars, trackerVars, pdfVars >>

\* one iteration of for (let i = 0; i < lines.length; i++)
LoopBody ==
    /\ docxPc = "loop"
    /\ lineIndex < Len(lines)
    /\ lineIndex' = lineIndex + 1
    /\ LET line == trim(lines[lineIndex + 1])
       IN  IF LooksLikeRow(line)
           THEN /\ currentTable' = IF Len(Cells(line)) > 1
                                   THEN Append(currentTable, Cells(line))
                                   ELSE currentTable
                /\ UNCHANGED << tables, tableIndex >>
           ELSE IF Len(currentTable) > 0
           THEN /\ tables' = IF Len(currentTable) > 1
                             THEN Append(tables, DocxTable(currentTable, tableIndex))
                             ELSE tables
                /\ tableIndex' = IF Len(currentTable) > 1
                                 THEN tableIndex + 1 ELSE tableIndex
                /\ currentTable' = <<>>
           ELSE UNCHANGED << currentTable, tables, tableIndex >>
    /\ UNCHANGED << lines, docxPc >>
    /\ UNCHANGED << progVars, regVars, pageVars, excelVars, trackerVars, pdfVars >>

\* LoopExit without the push after the loop
LoopExit_DropsOpenTable ==
    /\ docxPc = "loop"
    /\ lineIndex = Len(lines)
    /\ docxPc' = "returned"
    /\ UNCHANGED << lines, lineIndex, currentTable, tableIndex, tables >>
    /\ UNCHANGED << progVars, regVars, pageVars, excelVars, trackerVars, pdfVars >>

\* after the loop: the last table, if the text ended within one
LoopExit ==
    /\ docxPc = "loop"
    /\ lineIndex = Len(lines)
    /\ tables' = IF Len(currentTable) > 1
                 THEN Append(tables, DocxTable(currentTable, tableIndex))
                 ELSE tables
    /\ docxPc' = "returned"
    /\ UNCHANGED << lines, lineIndex, currentTable, tableIndex >>
    /\ UNCHANGED << progVars, regVars, pageVars, excelVars, trackerVars, pdfVars >>

DocxNext ==
    \/ LoopBody
    \/ LoopExit

DocxSpec == DocxInit /\ [][DocxNext]_vars

(* ------------------------------------------------------------------ *)
(* The page estimate of the text extractors                            *)
(* ------------------------------------------------------------------ *)

\* n one-letter words with sep between them
Words(n, sep) ==
    IF n = 0 THEN <<>>
    ELSE [ k \in 1..(n + (n - 1) * Len(sep)) |->
             IF k % (1 + Len(sep)) = 1 THEN "w" ELSE sep[((k - 2) % (1 + Len(sep))) + 1] ]

WordCounts == {0, 1, 2, 499, 500, 501, 999, 1000, 1001}

Separators == { << " " >>, << LF >>, << " ", TAB, LF >> }

Paddings == { <<>>, << " ", LF >> }

\* texts of so many words, with and without whitespace around them
PageTexts ==
    { lead \o Words(n, sep) \o trail :
        n \in WordCounts, sep \in Separators, lead \in Paddings, trail \in Paddings }

\* what mammoth reports: the number of its messages
MessageCounts == {0, 2}

\* the confidence tesseract reports, in tenths of a percent
Confidences == {0, 874, 875, 1000}

\* Math.round of a number given in tenths
round(tenths) == (tenths + 5) \div 10

PageInit ==
    /\ ProgInit
    /\ PdfIdle
    /\ RegistryIdle
    /\ TrackerIdle
    /\ DocxIdle
    /\ ExcelIdle
    /\ text \in PageTexts
    /\ extracted = NoExtraction

\* extractTXTText returns
TxtReturns ==
    /\ extracted = NoExtraction
    /\ extracted' = [ by       |-> "extractTXTText",
                      text     |-> text,
                      metadata |-> PageMetadata(text, 100),
                      tables   |-> <<>> ]
    /\ UNCHANGED text
    /\ UNCHANGED << progVars, regVars, docxVars, excelVars, trackerVars, pdfVars >>

\* extractDOCXText returns (its tables are the matter of LoopBody and LoopExit)
DocxReturns(messages) ==
    /\ extracted = NoExtraction
    /\ extracted' = [ by       |-> "extractDOCXText",
                      text     |-> text,
                      metadata |-> PageMetadata(text, IF messages = 0 THEN 95 ELSE 85) ]
    /\ UNCHANGED text
    /\ UNCHANGED << progVars, regVars, docxVars, excelVars, trackerVars, pdfVars >>

\* extractOCRText returns
OcrReturns(confidence) ==
    /\ extracted = NoExtraction
    /\ extracted' = [ by       |-> "extractOCRText",
                      text     |-> trim(text),
                      metadata |-> PageMetadata(text, round(confidence)),
                      tables   |-> <<>> ]
    /\ UNCHANGED text
    /\ UNCHANGED << progVars, regVars, docxVars, excelVars, trackerVars, pdfVars >>

PageNext ==
    \/ TxtReturns
    \/ \E m \in MessageCounts : DocxReturns(m)
    \/ \E c \in Confidences : OcrReturns(c)

PageSpec == PageInit /\ [][PageNext]_vars

(* ------------------------------------------------------------------ *)
(* extractExcelData on a workbook, one sheet at a time                 *)
(* ------------------------------------------------------------------ *)

MaxSheets == 2

\* A worksheet is the grid of the cells of its range, row by row; a cell
\* the sheet does not hold is Undefined, a value is a string.
Undefined == "undefined"

\* XLSX.utils.sheet_to_json(worksheet, { header: 1, defval: '' }): an array
\* per row of the range, '' for a cell the sheet does not hold
sheet_to_json(worksheet) ==
    [ r \in DOMAIN worksheet |->
        [ c \in DOMAIN worksheet[r] |->
            IF worksheet[r][c] = Undefined THEN "" ELSE worksheet[r][c] ] ]

\* row.some(cell => cell !== '')
SomeCell(row) == \E c \in DOMAIN row : row[c] # ""

\* the characters of a cell value
Chars(value) == IF value = "" THEN <<>> ELSE << value >>

\* Array.prototype.join on strings
RECURSIVE join(_, _)
join(strs, sep) ==
    IF strs = <<>> THEN <<>>
    ELSE IF Len(strs) = 1 THEN strs[1]
    ELSE strs[1] \o sep \o join(Tail(strs), sep)

\* jsonData.map(row => row.join('\t')).join('\n')
TextData(jsonData) ==
    join([r \in DOMAIN jsonData |->
             join([c \in DOMAIN jsonData[r] |-> Chars(jsonData[r][c])], << TAB >>)],
         << LF >>)

\* workbook.SheetNames[k - 1]
SheetName(k) ==
    CASE k = 1 -> << "A" >> [] k = 2 -> << "B" >> [] k = 3 -> << "C" >> [] OTHER -> << "D" >>

\* the table pushed for sheet number index (from 0) with rows cleanData
ExcelTable(index, cleanData) ==
    [ pageNumber |-> index + 1,
      tableIndex |-> index,
      data       |-> cleanData,
      structure  |-> [ rows    |-> Len(cleanData),
                       columns |-> IF cleanData # <<>> THEN Len(cleanData[1]) ELSE 0 ] ]

InputRows ==
    { << Undefined, Undefined >>, << "x", Undefined >>, << "", "" >>, << Undefined, "y" >> }

InputSheets == UNION { [1..n -> InputRows] : n \in 0..2 }

InputWorkbooks == UNION { [1..n -> InputSheets] : n \in 1..MaxSheets }

ExcelInit ==
    /\ ProgInit
    /\ PdfIdle
    /\ RegistryIdle
    /\ TrackerIdle
    /\ DocxIdle
    /\ PageIdle
    /\ workbook \in InputWorkbooks
    /\ sheetIndex = 0
    /\ excelTables = <<>>
    /\ combinedText = <<>>
    /\ excelResult = NoExtraction

\* ForEachSheet that numbers a table by its place among the tables
ForEachSheet_NumbersTables ==
    /\ sheetIndex < Len(workbook)
    /\ sheetIndex' = sheetIndex + 1
    /\ LET jsonData  == sheet_to_json(workbook[sheetIndex + 1])
           cleanData == SelectSeq(jsonData, SomeCell)
       IN  /\ combinedText' =
                 combinedText \o << "S", "h", "e", "e", "t", ":", " " >>
                    \o SheetName(sheetIndex + 1) \o << LF >>
                    \o TextData(jsonData) \o << LF, LF >>
           /\ excelTables' =
                 IF Len(cleanData) > 0
                 THEN Append(excelTables, ExcelTable(Len(excelTables), cleanData))
                 ELSE excelTables
    /\ UNCHANGED << workbook, excelResult >>
    /\ UNCHANGED << progVars, regVars, docxVars, pageVars, trackerVars, pdfVars >>

\* one call of the callback of sheetNames.forEach((sheetName, index) => ...)
ForEachSheet ==
    /\ sheetIndex < Len(workbook)
    /\ sheetIndex' = sheetIndex + 1
    /\ LET jsonData  == sheet_to_json(workbook[sheetIndex + 1])
           cleanData == SelectSeq(jsonData, SomeCell)
       IN  /\ combinedText' =
                 combinedText \o << "S", "h", "e", "e", "t", ":", " " >>
                    \o SheetName(sheetIndex + 1) \o << LF >>
                    \o TextData(jsonData) \o << LF, LF >>
           /\ excelTables' =
                 IF Len(cleanData) > 0
                 THEN Append(excelTables, ExcelTable(sheetIndex, cleanData))
                 ELSE excelTables
    /\ UNCHANGED << workbook, excelResult >>
    /\ UNCHANGED << progVars, regVars, docxVars, pageVars, trackerVars, pdfVars >>

\* extractExcelData returns
ExcelReturns ==
    /\ sheetIndex = Len(workbook)
    /\ excelResult = NoExtraction
    /\ excelResult' =
          [ by       |-> "extractExcelData",
            text     |-> trim(combinedText),
            metadata |-> [ pageCount            |-> Len(workbook),
                           extractionConfidence |-> 98,
                           processedPages       |-> ArrayFromLength(Len(workbook)) ],
            tables   |-> excelTables ]
    /\ UNCHANGED << workbook, sheetIndex, excelTables, combinedText >>
    /\ UNCHANGED << progVars, regVars, docxVars, pageVars, trackerVars, pdfVars >>

ExcelNext ==
    \/ ForEachSheet
    \/ ExcelReturns

ExcelSpec == ExcelInit /\ [][ExcelNext]_vars

(* ------------------------------------------------------------------ *)
(* extractPDFText on a file, one page at a time                        *)
(* ------------------------------------------------------------------ *)

MaxPages == 2

\* cell.text || ''
CellText(cell) == IF cell.text \in {Undefined, ""} THEN "" ELSE cell.text

\* table.rows.map(row => row.cells ? row.cells.map(cell => cell.text || '') : [])
TableData(table) ==
    [ r \in DOMAIN table.rows |->
        IF table.rows[r].hasCells
        THEN [ c \in DOMAIN table.rows[r].cells |-> CellText(table.rows[r].cells[c]) ]
        ELSE <<>> ]

\* table && table.rows && table.rows.length > 0
HasRows(table) == table.is = "table" /\ table.hasRows /\ Len(table.rows) > 0

\* PdfTable that leaves the page out
PdfTable_OnPageOne(pageNumber, index, tableData) ==
    [ pageNumber |-> 1,
      tableIndex |-> index,
      data       |-> tableData,
      structure  |-> [ rows    |-> Len(tableData),
                       columns |-> IF tableData # <<>> THEN Len(tableData[1]) ELSE 0 ] ]

\* the table pushed for entry number index (from 0) of the tables of a page
PdfTable(pageNumber, index, tableData) ==
    [ pageNumber |-> pageNumber,
      tableIndex |-> index,
      data       |-> tableData,
      structure  |-> [ rows    |-> Len(tableData),
                       columns |-> IF tableData # <<>> THEN Len(tableData[1]) ELSE 0 ] ]

\* what pageTables.forEach((table, tableIndex) => ...) pushes for a page
PushedForPage(pageNumber, pageTables) ==
    LET kept == SelectSeq([k \in DOMAIN pageTables |-> k],
                          LAMBDA k : HasRows(pageTables[k]))
    IN  [ n \in DOMAIN kept |->
            PdfTable(pageNumber, kept[n] - 1, TableData(pageTables[kept[n]])) ]

\* rows as the engine gives them: with cells, whose text may be missing, or
\* without the cells property
TwoCells == [ hasCells |-> TRUE, cells |-> << [text |-> "a"], [text |-> Undefined] >> ]
OneCell  == [ hasCells |-> TRUE, cells |-> << [text |-> "b"] >> ]
NoCells  == [ hasCells |-> FALSE ]

\* what an entry of pageTables can be
InputPdfTables ==
    { [ is |-> "null" ],
      [ is |-> "table", hasRows |-> FALSE ],
      [ is |-> "table", hasRows |-> TRUE, rows |-> << >> ],
      [ is |-> "table", hasRows |-> TRUE, rows |-> << TwoCells, OneCell >> ],
      [ is |-> "table", hasRows |-> TRUE, rows |-> << NoCells, TwoCells >> ] }

\* what await parser.getPageTables(pageNum) can give: an error, null, or an
\* array of tables
InputPageTables ==
    { [ is |-> "throws" ], [ is |-> "null" ] }
        \cup { [ is |-> "array", items |-> ts ] :
                 ts \in UNION { [1..n -> InputPdfTables] : n \in 0..2 } }

\* parser.doc.numPages is the number of pages, at least one
InputPdfFiles == UNION { [1..n -> InputPageTables] : n \in 1..MaxPages }

PdfInit ==
    /\ ProgInit
    /\ RegistryIdle
    /\ TrackerIdle
    /\ DocxIdle
    /\ PageIdle
    /\ ExcelIdle
    /\ pdfPages \in InputPdfFiles
    /\ pdfText = << "p", "d", "f" >>
    /\ pageNum = 0
    /\ pdfTables = <<>>
    /\ pdfPc = "load"
    /\ pdfResult = NoExtraction

\* readFileSync, parser.load() and parser.getText() succeed
PdfLoads ==
    /\ pdfPc = "load"
    /\ pdfPc' = "loop"
    /\ pageNum' = 1
    /\ UNCHANGED << pdfPages, pdfText, pdfTables, pdfResult >>
    /\ UNCHANGED << progVars, regVars, docxVars, pageVars, excelVars, trackerVars >>

\* one of them fails with cause: the outer catch rethrows
PdfLoadThrows(cause) ==
    /\ pdfPc = "load"
    /\ pdfPc' = "threw"
    /\ pdfResult' = [ by    |-> "extractPDFText",
                      threw |-> ExtractorMessage("extractPDFText", cause) ]
    /\ UNCHANGED << pdfPages, pdfText, pageNum, pdfTables >>
    /\ UNCHANGED << progVars, regVars, docxVars, pageVars, excelVars, trackerVars >>

\* one iteration of for (let pageNum = 1; pageNum <= numPages; pageNum++):
\* an error of getPageTables is logged and the loop goes on
PdfPage ==
    /\ pdfPc = "loop"
    /\ pageNum <= Len(pdfPages)
    /\ pdfTables' = IF pdfPages[pageNum].is = "array"
                    THEN pdfTables \o PushedForPage(pageNum, pdfPages[pageNum].items)
                    ELSE pdfTables
    /\ pageNum' = pageNum + 1
    /\ UNCHANGED << pdfPages, pdfText, pdfPc, pdfResult >>
    /\ UNCHANGED << progVars, regVars, docxVars, pageVars, excelVars, trackerVars >>

\* extractPDFText returns
PdfReturns ==
    /\ pdfPc = "loop"
    /\ pageNum > Len(pdfPages)
    /\ pdfPc' = "returned"
    /\ pdfResult' =
          [ by       |-> "extractPDFText",
            text     |-> pdfText,
            metadata |-> [ pageCount            |-> Len(pdfPages),
                           extractionConfidence |-> 95,
                           processedPages       |-> ArrayFromLength(Len(pdfPages)) ],
            tables   |-> pdfTables ]
    /\ UNCHANGED << pdfPages, pdfText, pageNum, pdfTables >>
    /\ UNCHANGED << progVars, regVars, docxVars, pageVars, excelVars, trackerVars >>

PdfNext ==
    \/ PdfLoads
    \/ \E cause \in EngineErrors : PdfLoadThrows(cause)
    \/ PdfPage
    \/ PdfReturns

PdfSpec == PdfInit /\ [][PdfNext]_vars

(* ------------------------------------------------------------------ *)
(* The three extractors that produce tables                            *)
(* ------------------------------------------------------------------ *)

\* one call of each in flight at once, as for three jobs uploaded together
ThreeCallsInit ==
    /\ ProgInit
    /\ RegistryIdle
    /\ TrackerIdle
    /\ PageIdle
    /\ lines = << << "a", TAB, "b", TAB, "c" >>, << " ", "x", TAB, " ", "y", TAB >> >>
    /\ lineIndex = 0
    /\ currentTable = <<>>
    /\ tableIndex = 0
    /\ tables = <<>>
    /\ docxPc = "loop"
    /\ workbook = << << << "x", Undefined >> >>, << << Undefined, "y" >>, << "", "" >> >> >>
    /\ sheetIndex = 0
    /\ excelTables = <<>>
    /\ combinedText = <<>>
    /\ excelResult = NoExtraction
    /\ pdfPages =
          << [ is |-> "array",
               items |-> << [ is |-> "table", hasRows |-> TRUE,
                              rows |-> << TwoCells, OneCell >> ],
                            [ is |-> "table", hasRows |-> TRUE,
                              rows |-> << NoCells, TwoCells >> ] >> ],
             [ is |-> "array",
               items |-> << [ is |-> "table", hasRows |-> TRUE,
                              rows |-> << TwoCells, OneCell >> ],
                            [ is |-> "table", hasRows |-> TRUE,
                              rows |-> << TwoCells, OneCell >> ] >> ] >>
    /\ pdfText = << "p", "d", "f" >>
    /\ pageNum = 0
    /\ pdfTables = <<>>
    /\ pdfPc = "load"
    /\ pdfResult = NoExtraction

\* a call of one extractor on any of its inputs, or one call of each
TablesInit ==
    \/ DocxInit
    \/ ExcelInit
    \/ PdfInit
    \/ ThreeCallsInit

TablesNext ==
    \/ LoopBody
    \/ LoopExit
    \/ ForEachSheet
    \/ ExcelReturns
    \/ PdfLoads
    \/ \E cause \in EngineErrors : PdfLoadThrows(cause)
    \/ PdfPage
    \/ PdfReturns

TablesSpec == TablesInit /\ [][TablesNext]_vars

\* The pipeline without the progress queries, which read the trackers and
\* the records and write nothing but poll.
RunNext ==
    \/ \E j \in Jobs, file \in InputFiles : UploadRequest(j, file)
    \/ \E j \in Jobs : SaveApplied(j)
    \/ \E j \in Jobs : SaveThrows(j)
    \/ \E j \in Jobs : UploadContinue(j)
    \/ \E j \in Jobs : WriteApplied(j)
    \/ \E j \in Jobs, e \in StoreErrors : WriteThrows(j, e)
    \/ \E j \in Jobs : ProcessResume(j)
    \/ \E j \in Jobs, r \in Results : ExtractorReturns(j, r)
    \/ \E j \in Jobs, c \in EngineErrors : ExtractorThrows(j, c)
    \/ \E j \in Jobs : CleanupTimerFires(j)
    \/ \E j \in Jobs : DeleteDocument(j)

RunSpec == Init /\ [][RunNext]_vars

(* ------------------------------------------------------------------ *)
(* Properties                                                          *)
(* ------------------------------------------------------------------ *)

\* the positions of an upload whose processDocument run has been started
RunPcs == {"mark", "markOk", "extract", "final", "finalOk", "failWrite",
           "failWriteOk", "done"}

\* the status getDocumentProgress reports for id j when called and answered
\* in this state
ProgressStatus(j) ==
    IF getProgressTracker(j).status # "absent" THEN getProgressTracker(j).status
    ELSE IF record[j].processingStatus = "absent" THEN "DOCUMENT_NOT_FOUND"
    ELSE record[j].processingStatus

\* the terminal writes (completed-fields or failed-fields) run j has made
TerminalWrites(j) ==
    {i \in DOMAIN writes[j] : writes[j][i].update.kind \in {"completed", "failed"}}

\* C1: an accepted job whose extractor returned or threw ends in a terminal
\* status.  Once its processDocument run is over nothing but a delete changes
\* what getDocumentProgress reports, so from then on the reported status is
\* 'completed' or 'failed' (or the record is gone), first from the tracker,
\* then from the record.  Runs with a failing store call are left aside.
C1_TerminalStatusReached ==
    \A j \in Jobs :
        ( /\ pc[j] = "done"
          /\ invoked[j] # <<>>
          /\ \A i \in DOMAIN writes[j] : writes[j][i].outcome = "resolved" ) =>
            ProgressStatus(j) \in {"completed", "failed", "DOCUMENT_NOT_FOUND"}

\* C2: a run that caught an error has called fail(error) on its tracker and
\* has made the failed-fields write with errorMessage = error.message.
C2_FailurePersisted ==
    \A j \in Jobs :
        (pc[j] = "done" /\ thrown[j] # "") =>
            /\ tracker[j].status = "failed"
            /\ \E i \in DOMAIN writes[j] : writes[j][i].update = FailedFields(thrown[j])

\* C3: the promise of no processDocument run is rejected.
C3_NoRejection == rejected = {}

\* C4: a run that is over has made exactly one terminal write.
C4_ExactlyOneTerminalWrite ==
    \A j \in Jobs : pc[j] = "done" => Cardinality(TerminalWrites(j)) = 1

\* C5: a completed record has no errorMessage and has its extractionDate
\* set; a failed record has an errorMessage.
C5_RecordInvariant ==
    \A j \in Jobs :
        /\ record[j].processingStatus = "completed" =>
              /\ record[j].errorMessage = "null"
              /\ record[j].extractionDate \in {"created", "extracted"}
        /\ record[j].processingStatus = "failed" => record[j].errorMessage # "null"

C5_Witness ==
    \E j \in Jobs :
        /\ record[j].processingStatus = "completed"
        /\ record[j].extractionDate = "extracted"

\* C6: a completed record holds the text, tables and metadata of the one
\* result its own extractor returned; a record in any other status, failed
\* included, holds the empty defaults.
C6_CompletedCarriesOneResult ==
    \A j \in Jobs :
        /\ record[j].processingStatus = "completed" =>
              /\ extractedData[j] \in Results
              /\ record[j].extractedText = extractedData[j]
              /\ record[j].extractedTables = extractedData[j]
              /\ record[j].metadata = extractedData[j]
        /\ record[j].processingStatus \in {"pending", "processing", "failed"} =>
              /\ record[j].extractedText = 0
              /\ record[j].extractedTables = 0
              /\ record[j].metadata = 0

C6_Witness ==
    \E j, k \in Jobs :
        /\ record[j].processingStatus = "completed"
        /\ record[k].processingStatus = "completed"
        /\ record[j].extractedTables # record[k].extractedTables

C8_ResponseBeforeProcessing ==
    \A j \in Jobs :
        /\ pc[j] \in RunPcs => response[j] = [code |-> 201, body |-> "pending"]
        /\ response[j].code = 201 =>
              /\ pc[j] \in RunPcs
              /\ tracker[j] # NoTracker

C8_Witness ==
    \E j \in Jobs :
        /\ pc[j] = "extract"
        /\ response[j] = [code |-> 201, body |-> "pending"]
        /\ record[j].processingStatus = "processing"

\* C9 as stated: after the cleanup timer of a job has fired the registry has
\* no tracker for it, and every answer of getDocumentProgress is the record's
\* processingStatus, or not-found when there is no record.
C9_AnswersFromRecord ==
    /\ \A j \in Jobs : fired[j] > 0 => getProgressTracker(j) = NoTracker
    /\ (poll.phase = "answered" /\ fired[poll.id] > 0) =>
          \/ /\ poll.code = 200
             /\ poll.source = "record"
             /\ poll.status = record[poll.id].processingStatus
          \/ /\ poll.code = 404
             /\ record[poll.id] = NoRecord

\* C9 amended: ... or the call answers 500 when the record lookup throws.
C9_AnswersFromRecordOrError ==
    /\ \A j \in Jobs : fired[j] > 0 => getProgressTracker(j) = NoTracker
    /\ (poll.phase = "answered" /\ fired[poll.id] > 0) =>
          \/ /\ poll.code = 200
             /\ poll.source = "record"
             /\ poll.status = record[poll.id].processingStatus
          \/ /\ poll.code = 404
             /\ record[poll.id] = NoRecord
          \/ /\ poll.code = 500
             /\ poll.source = "none"

C9_Witness ==
    /\ poll.phase = "answered"
    /\ fired[poll.id] > 0
    /\ poll.code = 200
    /\ poll.status = "completed"

\* C10: a run schedules its one cleanup timer when it is over, on the success
\* path and on every failure path, and only a fired timer takes the tracker
\* out of the registry.
C10_OneCleanupTimer ==
    \A j \in Jobs :
        /\ timers[j] = (IF pc[j] = "done" THEN 1 ELSE 0)
        /\ timers[j] = 1 => tracker[j].status \in {"completed", "failed"}
        /\ fired[j] <= timers[j]
        /\ (pc[j] \in RunPcs /\ fired[j] = 0) => j \in activeProgress

C10_Witness ==
    \E j, k \in Jobs :
        /\ timers[j] = 1 /\ tracker[j].status = "completed"
        /\ timers[k] = 1 /\ tracker[k].status = "failed"
        /\ fired[j] = 0 /\ j \in activeProgress

\* the progress values the checkpoints of a run on a file of type ext set
Checkpoints(ext) ==
    {0, 10, 30, 80, 100} \cup (IF ext \in {"jpg", "jpeg", "png"} THEN {50} ELSE {})

\* C11: while no error has been caught in the run of a job, every 200 answer
\* of getDocumentProgress for it carries a progress that is one of the
\* checkpoint values and is not below the progress of the answer before it,
\* whether the answer comes from the tracker or from the record.
C11_ProgressNonDecreasing ==
    [][ ( /\ poll'.phase = "answered"
          /\ poll'.code = 200
          /\ thrown[poll'.id] = "" ) =>
            /\ poll'.progress \in Checkpoints(fileType[poll'.id])
            /\ poll'.progress >= lastProgress[poll'.id] ]_vars

TerminalStatuses == {"completed", "failed"}

\* C12 as stated: no call of updateProgress, setStatus, complete or fail on
\* a tracker whose status is 'completed' or 'failed' changes its status.
C12_NoCallLeavesTerminal ==
    \A j \in Jobs :
        tracker[j].status \in TerminalStatuses =>
            \A c \in TrackerCalls : Call(tracker[j], c).status = tracker[j].status

\* C12 amended: the calls the orchestrator makes never change the status of
\* a tracker that is 'completed' or 'failed', and the only status changes of
\* a tracker are processing to completed and processing to failed (after
\* its creation as 'processing').
C12_TerminalStatusStays ==
    [][ \A j \in Jobs :
          tracker'[j].status # tracker[j].status =>
              << tracker[j].status, tracker'[j].status >> \in
                  { << "absent", "processing" >>,
                    << "processing", "completed" >>,
                    << "processing", "failed" >> } ]_vars

C12_Witness ==
    \E j, k \in Jobs :
        /\ pc[j] = "done" /\ tracker[j].status = "completed" /\ fired[j] = 1
        /\ pc[k] = "done" /\ tracker[k].status = "failed" /\ fired[k] = 1

\* C13: the registry holds at most one entry per id; under every id it holds
\* the tracker of the last create(id) not followed by a remove(id), and
\* nothing otherwise (so a create replaces, and calls on one id leave the
\* entries of the other ids alone); getProgressTracker returns just that.
C13_RegistryHoldsLatest ==
    /\ \A i, h \in DOMAIN registry : registry[i].key = registry[h].key => i = h
    /\ \A id \in Jobs : MapGet(registry, id) = latest[id]
    /\ \A i \in DOMAIN registry : registry[i].value = latest[registry[i].key]
    /\ got # NoCall => got.value = latest[got.id]

C13_Witness ==
    \E a, b \in Jobs :
        /\ a # b
        /\ made = 3
        /\ Len(registry) = 2
        /\ MapGet(registry, b) = 1
        /\ MapGet(registry, a) = 3
        /\ got = [id |-> a, value |-> 3]

\* line k of the text is classified as a table row
IsRowLine(k) == LooksLikeRow(trim(lines[k]))

\* the cells of lines s..e, one row per line
RowsOf(s, e) == [n \in 1..(e - s + 1) |-> Cells(trim(lines[s + n - 1]))]

\* the maximal runs <<s, e>> of row lines among the first n lines
Runs(n) ==
    { r \in (1..n) \X (1..n) :
        /\ r[1] <= r[2]
        /\ \A k \in r[1]..r[2] : IsRowLine(k)
        /\ r[1] = 1 \/ ~IsRowLine(r[1] - 1)
        /\ r[2] = n \/ ~IsRowLine(r[2] + 1) }

\* those of at least two lines
LongRuns(n) == { r \in Runs(n) : r[2] - r[1] + 1 >= 2 }

\* C14: when the heuristic returns, its tables are, in input order, one per
\* maximal run of k >= 2 consecutive row lines (ended by a non-row line or
\* by the end of the text): data is the k rows in order, structure.rows is
\* k and structure.columns the number of cells of the first row.
C14_OneTablePerRun ==
    docxPc = "returned" =>
        /\ Len(tables) = Cardinality(LongRuns(Len(lines)))
        /\ \A r \in LongRuns(Len(lines)) :
              LET t == tables[Cardinality({q \in LongRuns(Len(lines)) : q[1] <= r[1]})]
              IN  /\ t.data = RowsOf(r[1], r[2])
                  /\ t.structure.rows = r[2] - r[1] + 1
                  /\ t.structure.columns = Len(Cells(trim(lines[r[1]])))

C14_Witness ==
    /\ docxPc = "returned"
    /\ lines = << << "a", TAB, "b", TAB, "c" >>,
                  << "1", TAB, "2", TAB, "3" >>,
                  << "n", "o", " ", "t" >> >>
    /\ Len(tables) = 1
    /\ tables[1].structure = [rows |-> 2, columns |-> 3]
    /\ tables[1].data = << << <<"a">>, <<"b">>, <<"c">> >>,
                           << <<"1">>, <<"2">>, <<"3">> >> >>

\* C15: no table has fewer than two rows, and currentTable holds the rows
\* of the run of row lines the loop stands in and nothing else: a run of
\* one row line that a non-row line ended has left it empty, with no table
\* pushed, and one that the end of the text ended yields no table either.
C15_NoSingleRowTable ==
    /\ \A n \in DOMAIN tables :
          tables[n].structure.rows >= 2 /\ Len(tables[n].data) >= 2
    /\ Len(tables) <= Cardinality(LongRuns(lineIndex))
    /\ docxPc # "idle" =>
          IF lineIndex >= 1 /\ IsRowLine(lineIndex)
          THEN \E r \in Runs(lineIndex) :
                  r[2] = lineIndex /\ currentTable = RowsOf(r[1], r[2])
          ELSE currentTable = <<>>

C15_Witness ==
    /\ docxPc = "returned"
    /\ Len(lines) = 4
    /\ IsRowLine(1) /\ ~IsRowLine(2) /\ IsRowLine(3) /\ ~IsRowLine(4)
    /\ tables = <<>>
    /\ currentTable = <<>>

\* the non-empty whitespace-delimited tokens of str: where one begins
TokenStarts(str) ==
    { k \in DOMAIN str : ~IsSpace(str[k]) /\ (k = 1 \/ IsSpace(str[k - 1])) }

\* C16: what the plain-text, word-processor and OCR extractors return has
\* pageCount = max(1, ceil(wordCount / 500)), wordCount being the number
\* of non-empty whitespace-delimited tokens of the text, and processedPages
\* = 1..pageCount; 0 words give 1 page, 500 give 1, 501 give 2, 1000 give 2.
C16_PageCountFromWords ==
    extracted # NoExtraction =>
        LET words == Cardinality(TokenStarts(text))
            pages == extracted.metadata.pageCount
        IN  /\ pages >= 1
            /\ pages * 500 >= words
            /\ pages = 1 \/ (pages - 1) * 500 < words
            /\ extracted.metadata.processedPages = [k \in 1..pages |-> k]
            /\ words = 0 => pages = 1
            /\ words = 500 => pages = 1
            /\ words = 501 => pages = 2
            /\ words = 1000 => pages = 2

C16_Witness ==
    /\ extracted.by = "extractOCRText"
    /\ Cardinality(TokenStarts(text)) = 501
    /\ extracted.metadata.pageCount = 2
    /\ extracted.metadata.processedPages = << 1, 2 >>

\* sheet number k of the workbook holds a cell with a value other than ''
HasValue(k) ==
    \E r \in DOMAIN workbook[k] : \E c \in DOMAIN workbook[k][r] :
        workbook[k][r][c] \notin {Undefined, ""}

\* the rows of sheet k without those that hold no value
RowsWithValue(k) ==
    SelectSeq(sheet_to_json(workbook[k]),
              LAMBDA row : \E c \in DOMAIN row : row[c] # "")

\* C17: for a workbook of n sheets extractExcelData returns pageCount = n
\* and processedPages = 1..n, empty sheets counted, and exactly one table
\* for every sheet that holds a value, with pageNumber the place of the
\* sheet (from 1) and data the rows of the sheet without the rows that hold
\* no value; a sheet without a value has no table.
C17_OneTablePerSheetWithData ==
    excelResult # NoExtraction =>
        /\ excelResult.metadata.pageCount = Len(workbook)
        /\ excelResult.metadata.processedPages = [k \in 1..Len(workbook) |-> k]
        /\ \A k \in DOMAIN workbook :
              LET mine == { n \in DOMAIN excelResult.tables :
                              excelResult.tables[n].pageNumber = k }
              IN  IF HasValue(k)
                  THEN /\ Cardinality(mine) = 1
                       /\ \A n \in mine : excelResult.tables[n].data = RowsWithValue(k)
                  ELSE mine = {}
        /\ \A n \in DOMAIN excelResult.tables :
              excelResult.tables[n].pageNumber \in DOMAIN workbook

C17_Witness ==
    /\ excelResult # NoExtraction
    /\ Len(workbook) = 2
    /\ ~HasValue(1)
    /\ workbook[2] = << << Undefined, Undefined >>, << Undefined, "y" >> >>
    /\ excelResult.metadata.pageCount = 2
    /\ Len(excelResult.tables) = 1
    /\ excelResult.tables[1].pageNumber = 2
    /\ excelResult.tables[1].data = << << "", "y" >> >>

\* C18: between any two steps of the handlers a tracker the registry holds
\* is 'processing', 'completed' or 'failed', never 'pending', and so is the
\* status of every answer getDocumentProgress takes from a tracker.
C18_NoPendingTracker ==
    /\ \A j \in Jobs :
          getProgressTracker(j) # NoTracker =>
              getProgressTracker(j).status \in {"processing", "completed", "failed"}
    /\ (poll.phase = "answered" /\ poll.source = "tracker") =>
          poll.status \in {"processing", "completed", "failed"}

C18_Witness ==
    /\ poll.phase = "answered"
    /\ poll.source = "tracker"
    /\ poll.status = "processing"
    /\ poll.progress = 0
    /\ pc[poll.id] = "mark"
    /\ record[poll.id].processingStatus = "pending"

\* C19: the progress of a tracker is always in 0..100; updateProgress(v,
\* step) sets it to 0 for v < 0, to 100 for v > 100 and to v otherwise,
\* emits one 'progress' event, which carries that value, and leaves the
\* status as it was.
C19_ProgressClamped ==
    /\ unit.progress \in 0..100
    /\ lastCall.call.op = "updateProgress" =>
          /\ unit.progress = ( IF lastCall.call.progress < 0 THEN 0
                               ELSE IF lastCall.call.progress > 100 THEN 100
                               ELSE lastCall.call.progress )
          /\ Len(lastCall.emitted) = 1
          /\ lastCall.emitted[1].event = "progress"
          /\ lastCall.emitted[1].progress = unit.progress
          /\ unit.status = lastCall.before.status
          /\ lastCall.ended = "returned"

C19_Witness ==
    /\ lastCall.call.op = "updateProgress"
    /\ lastCall.call.progress = 250
    /\ lastCall.before.progress = 42
    /\ lastCall.before.status = "failed"
    /\ unit.progress = 100
    /\ unit.status = "failed"

\* C20: fail(error) leaves the tracker 'failed' with a currentStep made of
\* error.message and its progress as it was, emits one 'status' event and
\* then one 'error' event carrying error.message, and returns.
C20_FailReturns ==
    lastCall.call.op = "fail" =>
        /\ unit.status = "failed"
        /\ unit.currentStep = "Error: " \o lastCall.call.message
        /\ unit.progress = lastCall.before.progress
        /\ Len(lastCall.emitted) = 2
        /\ lastCall.emitted[1].event = "status"
        /\ lastCall.emitted[1].status = "failed"
        /\ lastCall.emitted[2] = ErrorEvent(lastCall.call.message)
        /\ lastCall.ended = "returned"

\* C21: complete() leaves the tracker 'completed' with progress 100, and
\* emits exactly one 'status' event and then exactly one 'progress' event.
C21_CompleteStatusThenProgress ==
    lastCall.call.op = "complete" =>
        /\ unit.status = "completed"
        /\ unit.progress = 100
        /\ Len(lastCall.emitted) = 2
        /\ lastCall.emitted[1].event = "status"
        /\ lastCall.emitted[1].status = "completed"
        /\ lastCall.emitted[2].event = "progress"
        /\ lastCall.emitted[2].progress = 100
        /\ lastCall.ended = "returned"

C21_Witness ==
    /\ lastCall.call.op = "complete"
    /\ lastCall.before.status = "processing"
    /\ lastCall.before.progress = 42
    /\ unit.status = "completed"
    /\ unit.progress = 100

\* C22: a run whose write marking the record 'processing' was rejected goes
\* on: when the run is over its extractor has been invoked.
C22_MarkFailureContinues ==
    \A j \in Jobs :
        ( /\ pc[j] = "done"
          /\ writes[j] # <<>>
          /\ writes[j][1].update = MarkProcessing
          /\ writes[j][1].outcome = "rejected" ) =>
            invoked[j] # <<>>

\* the progress the tracker of a run on a file of type ext shows while the
\* extractor is at work
ProgressAtExtractor(ext) == IF ext \in {"jpg", "jpeg", "png"} THEN 50 ELSE 30

\* C23: the steps of a run come in one order.  The tracker leaves progress
\* 0 only after the write that marks the record 'processing' has resolved;
\* the extractor is invoked after the checkpoints 10, 30 (and 50 for an
\* image); progress 80 is set only after the extractor has returned and
\* before the completed-fields write is issued; the tracker is 'completed'
\* only after that write has resolved.
C23_StepsInOrder ==
    \A j \in Jobs :
        pc[j] \in RunPcs =>
            /\ tracker[j].progress > 0 =>
                  writes[j][1] = [update |-> MarkProcessing, outcome |-> "resolved"]
            /\ invoked[j] # <<>> =>
                  tracker[j].progress >= ProgressAtExtractor(fileType[j])
            /\ pc[j] = "extract" =>
                  /\ tracker[j].progress = ProgressAtExtractor(fileType[j])
                  /\ extractedData[j] = 0
            /\ tracker[j].progress >= 80 =>
                  /\ extractedData[j] \in Results
                  /\ Len(invoked[j]) = 1
            /\ Len(writes[j]) >= 2 =>
                  /\ writes[j][2].update = CompletedFields(extractedData[j])
                  /\ tracker[j].progress >= 80
            /\ tracker[j].status = "completed" =>
                  /\ tracker[j].progress = 100
                  /\ Len(writes[j]) = 2
                  /\ writes[j][2].outcome = "resolved"
            /\ tracker[j].progress = 100 => tracker[j].status = "completed"

C23_Witness ==
    \E j, k \in Jobs :
        /\ fileType[j] = "png" /\ pc[j] = "extract" /\ tracker[j].progress = 50
        /\ fileType[k] = "pdf" /\ pc[k] = "done" /\ tracker[k].status = "completed"

\* C24: a run invokes at most one extractor, at most once, and which one
\* depends on the file-type tag alone; a run that caught an error, an
\* extractor's included, has still invoked at most that one.
C24_OneExtractorByTag ==
    \A j \in Jobs :
        /\ Len(invoked[j]) <= 1
        /\ invoked[j] # <<>> =>
              invoked[j][1] =
                  ( CASE fileType[j] = "pdf" -> "extractPDFText"
                      [] fileType[j] = "docx" -> "extractDOCXText"
                      [] fileType[j] \in {"xlsx", "xls"} -> "extractExcelData"
                      [] fileType[j] = "txt" -> "extractTXTText"
                      [] fileType[j] \in {"jpg", "jpeg", "png"} -> "extractOCRText"
                      [] OTHER -> "no extractor" )
        /\ (thrown[j] # "" /\ invoked[j] # <<>>) => pc[j] = "done"

C24_Witness ==
    \E j, k \in Jobs :
        /\ invoked[j] = << "extractOCRText" >>
        /\ thrown[j] = "Failed to extract OCR content: corrupt file"
        /\ pc[j] = "done"
        /\ invoked[k] = << "extractPDFText" >>
        /\ extractedData[k] \in Results

\* a step of job a's processDocument run: the run moves on, or one of its
\* cleanup timers fires
RunStepOf(a) ==
    \/ pc'[a] \in RunPcs /\ pc'[a] # pc[a]
    \/ fired'[a] # fired[a]

C25_OtherOrder ==
    /\ pc[1] = "done" /\ tracker[1].status = "completed"
    /\ fired[1] = 1 /\ 1 \notin activeProgress
    /\ pc[2] = "extract" /\ 2 \in activeProgress
    /\ tracker[2].status = "processing"

\* C26: every table of the DOCX heuristic has pageNumber 1 and the tables
\* carry tableIndex 0, 1, 2, ... in the order they were found, and the
\* counter stands at the number of tables pushed, so that a candidate of
\* one row has used no index.
C26_DocxIndicesInOrder ==
    /\ \A n \in DOMAIN tables :
          tables[n].pageNumber = 1 /\ tables[n].tableIndex = n - 1
    /\ docxPc = "loop" => tableIndex = Len(tables)
    /\ docxPc = "returned" => tableIndex \in {Len(tables), Len(tables) - 1}

\* a candidate of one row, then two tables: they carry 0 and 1
C26_Witness ==
    /\ docxPc = "returned"
    /\ Len(lines) = 7
    /\ IsRowLine(1) /\ ~IsRowLine(2)
    /\ Len(tables) = 2
    /\ tables[1].tableIndex = 0 /\ tables[1].data = RowsOf(3, 4)
    /\ tables[2].tableIndex = 1 /\ tables[2].data = RowsOf(6, 7)

\* what C27 says of the tables of one result
TablesWellFormed(ts) ==
    \A n \in DOMAIN ts :
        /\ ts[n].structure.rows = Len(ts[n].data)
        /\ ts[n].structure.columns =
              (IF Len(ts[n].data) = 0 THEN 0 ELSE Len(ts[n].data[1]))
        /\ \A m \in DOMAIN ts :
              m # n => << ts[m].pageNumber, ts[m].tableIndex >>
                          # << ts[n].pageNumber, ts[n].tableIndex >>

\* the rows of a table do not all have one length
Ragged(table) ==
    \E r, q \in DOMAIN table.data : Len(table.data[r]) # Len(table.data[q])

\* C27: every table of the DOCX, the spreadsheet and the PDF extractor has
\* structure.rows = length(data) and structure.columns = the length of its
\* first row (0 without one), and no two tables of one result have the same
\* pageNumber and tableIndex.
C27_TablesWellFormed ==
    /\ TablesWellFormed(tables)
    /\ TablesWellFormed(excelTables)
    /\ TablesWellFormed(pdfTables)
    /\ excelResult # NoExtraction => TablesWellFormed(excelResult.tables)
    /\ pdfPc = "returned" => TablesWellFormed(pdfResult.tables)

\* the three extractors have returned: ragged tables from the DOCX and the
\* PDF extractor, one table per sheet, and four PDF tables on two pages
C27_Witness ==
    /\ docxPc = "returned" /\ Len(tables) = 1 /\ Ragged(tables[1])
    /\ excelResult # NoExtraction /\ Len(excelResult.tables) = 2
    /\ pdfPc = "returned" /\ Len(pdfResult.tables) = 4
    /\ Ragged(pdfResult.tables[1])
    /\ pdfResult.tables[2].structure = [rows |-> 2, columns |-> 0]
    /\ pdfResult.tables[3].pageNumber = 2 /\ pdfResult.tables[3].tableIndex = 0

\* run j invoked its extractor and the extractor threw instead of returning
ExtractorFailed(j) ==
    invoked[j] # <<>> /\ extractedData[j] = 0 /\ thrown[j] # ""

C29_TrackerCompletedAfterRecord ==
    \A j \in Jobs :
        (tracker[j].status = "completed" /\ record[j] # NoRecord)
            => record[j].processingStatus = "completed"

\* job k has completed both; job j shows the opposite staleness: its record
\* is 'completed' while its tracker still says 'processing'
C29_Witness ==
    \E j, k \in Jobs :
        /\ record[j] # NoRecord /\ record[j].processingStatus = "completed"
        /\ tracker[j].status = "processing" /\ tracker[j].progress = 80
        /\ j \in activeProgress
        /\ record[k] # NoRecord /\ record[k].processingStatus = "completed"
        /\ tracker[k].status = "completed"

\* C30: a tracker whose status is 'completed' has progress 100 in every
\* state between two steps, which is all a getDocumentProgress call can
\* see, and in every event the complete() call of a run passes to its
\* listeners: the 'status' event that says 'completed' carries progress 100.
C30_CompletedCarriesHundred ==
    \A j \in Jobs :
        /\ tracker[j].status = "completed" => tracker[j].progress = 100
        /\ pc[j] = "finalOk" =>
              \A n \in DOMAIN Emitted(tracker[j], [op |-> "complete"]) :
                  Emitted(tracker[j], [op |-> "complete"])[n].status = "completed"
                      => Emitted(tracker[j], [op |-> "complete"])[n].progress = 100

Deleted(j) == pc[j] \in RunPcs \cup {"saved"} /\ record[j] = NoRecord

\* C32: once deleteDocument has removed the record of an id, every
\* getDocumentProgress answer for the id is the 404 DOCUMENT_NOT_FOUND, also
\* while the run of the job goes on or its tracker is still registered, and
\* no step brings a record of the id back.
C32_DeletedIsNotFound ==
    [][ \A j \in Jobs : Deleted(j) =>
          /\ record'[j] = NoRecord
          /\ (poll'.phase = "answered" /\ poll'.id = j) => poll'.code = 404 ]_vars

\* C33: an upload that was rejected, by the validation (400) or because
\* document.save() failed (500), has no tracker, registered or not, has
\* started no processDocument run (no store call, no extractor, no timer, no
\* promise) and, when the validation rejected it, has no record.
C33_RejectedUploadLeavesNothing ==
    \A j \in Jobs : pc[j] = "rejected" =>
        /\ response[j].code \in {400, 500}
        /\ response[j].code = 400 =>
              response[j].body \in { "NO_FILE_UPLOADED", "INVALID_FILE_TYPE",
                                     "FILE_TOO_LARGE", "INVALID_FILE_NAME" }
        /\ j \notin activeProgress
        /\ tracker[j] = NoTracker
        /\ writes[j] = <<>> /\ invoked[j] = <<>>
        /\ timers[j] = 0 /\ fired[j] = 0
        /\ extractedData[j] = 0 /\ thrown[j] = ""
        /\ j \notin rejected
        /\ response[j].code = 400 => record[j] = NoRecord

\* one upload rejected for its size, another for a failing save
C33_Witness ==
    \E j, k \in Jobs :
        /\ pc[j] = "rejected" /\ response[j] = [code |-> 400, body |-> "FILE_TOO_LARGE"]
        /\ pc[k] = "rejected" /\ response[k] = [code |-> 500, body |-> "UPLOAD_ERROR"]
        /\ activeProgress = {}

\* C34: for every job, also one whose run caught an error, a 200 answer of
\* getDocumentProgress carries a progress that is not below the progress of
\* the answer before it, and after an answer with a terminal status no
\* answer says 'processing' or 'pending', whether the answers come from the
\* tracker or, once it is removed, from the record.
C34_AnswersNeverGoBack ==
    [][ (poll'.phase = "answered" /\ poll'.code = 200) =>
          /\ poll'.progress >= lastProgress[poll'.id]
          /\ lastStatus[poll'.id] \in TerminalStatuses =>
                poll'.status \notin {"processing", "pending"} ]_vars

====
